---- MODULE Spec2Model ----
(***************************************************************************)
(* Model of relayer/src/keyring/store.rs: the in-memory KeyRing, a         *)
(* BTreeMap<Address, KeyEntry>, with init, add_from_mnemonic, get, insert  *)
(* and sign.  The cryptography of the dependencies (BIP39 mnemonic, BIP32  *)
(* derivation, secp256k1 ECDSA, SHA256/RIPEMD160) keeps its algebraic      *)
(* structure but works in a small group: the subgroup of order GroupQ of   *)
(* the multiplicative group modulo GroupP, generated by GroupG.            *)
(***************************************************************************)
EXTENDS Integers, Sequences, FiniteSets, TLC

(* ------------------------------ bounds --------------------------------- *)

\* longest phrase handed to add_from_mnemonic (in words)
MaxWords == 3
\* messages handed to sign are 0..MaxMsg
MaxMsg == 1
\* private scalars of the entries handed to insert directly are 1..MaxTestKey
MaxTestKey == 2
\* concurrent callers of the shared store
NThreads == 2

(* -------------------- scaled-down cryptographic constants -------------- *)

\* the curve (secp256k1) scaled down: prime modulus, group order, generator
GroupP == 23
GroupQ == 11
GroupG == 2
\* BIP39: size of the word list and the word count of a well-formed phrase
WordlistSize == 2
WordCount == 3
\* width of a hash output half (HMAC-SHA512 left/right part) and of SHA256
HalfSpace == 12
ShaSpace == 17
\* the empty passphrase of to_seed(Some(""))
EmptyPassphrase == 0
\* number of distinct addresses (RIPEMD160 output)
AddrSpace == 3

Words == 0 .. (WordlistSize - 1)
Messages == 0 .. MaxMsg
Addresses == 0 .. (AddrSpace - 1)
Scalars == 1 .. (GroupQ - 1)

RECURSIVE Pow(_, _, _)
Pow(b, e, m) == IF e = 0 THEN 1 % m ELSE (b * Pow(b, e - 1, m)) % m

\* multiplicative inverse modulo the group order (Fermat)
InvQ(x) == Pow(x, GroupQ - 2, GroupQ)

RECURSIVE SeqSum(_)
SeqSum(s) == IF s = << >> THEN 0 ELSE Head(s) + SeqSum(Tail(s))

Ok(v) == [ok |-> TRUE, val |-> v]
Err(kind) == [ok |-> FALSE, err |-> kind]

(* ------------------------- derivation engine --------------------------- *)

\* every phrase of 1..MaxWords words
Mnemonics == UNION {[1 .. n -> Words] : n \in 1 .. MaxWords}

\* BIP39 checksum word over the entropy words
Checksum(entropy) == (SeqSum(entropy) + 1) % WordlistSize

\* Mnemonic::from_str: word count and checksum validation
MnemonicFromStr(words) ==
    IF Len(words) # WordCount THEN Err("InvalidMnemonic")
    ELSE IF words[WordCount] # Checksum(SubSeq(words, 1, WordCount - 1))
         THEN Err("InvalidMnemonic")
         ELSE Ok(SubSeq(words, 1, WordCount - 1))

RECURSIVE Entropy(_)
Entropy(e) == IF e = << >> THEN 0 ELSE Head(e) + WordlistSize * Entropy(Tail(e))

\* Mnemonic::to_seed(passphrase): a fixed mixing of entropy and passphrase
ToSeed(entropy, pass) == (5 * Entropy(entropy) + 3 * pass + 7) % 64

\* one keyed hash (HMAC-SHA512) split in its left and right halves
Hmac(key, data) ==
    LET h == (7 * key * key + 29 * data + 3 * key * data + 7) % (HalfSpace * HalfSpace)
    IN  [left |-> h % HalfSpace, right |-> h \div HalfSpace]

\* ExtendedPrivKey::new_master: the left half must be a valid scalar
NewMaster(seed) ==
    LET i == Hmac(1, seed)
    IN  IF i.left = 0 \/ i.left >= GroupQ THEN Err("PrivateKey")
        ELSE Ok([private_key |-> i.left, chain_code |-> i.right])

\* the public point of a private scalar
PubFromScalar(k) == Pow(GroupG, k, GroupP)

\* m/44'/118'/0'/0/0 as <<index, hardened>> pairs
HdPath == << <<44, TRUE>>, <<118, TRUE>>, <<0, TRUE>>, <<0, FALSE>>, <<0, FALSE>> >>

\* one child-key derivation step (ckd_priv)
CkdPriv(parent, child) ==
    LET data == IF child[2] THEN parent.private_key + 2 * child[1] + 1
                ELSE PubFromScalar(parent.private_key) + 2 * child[1]
        i == Hmac(parent.chain_code + 2, data)
        k == (i.left + parent.private_key) % GroupQ
    IN  IF i.left >= GroupQ \/ k = 0 THEN Err("PrivateKey")
        ELSE Ok([private_key |-> k, chain_code |-> i.right])

RECURSIVE DerivePriv(_, _)
DerivePriv(key, path) ==
    IF path = << >> THEN Ok(key)
    ELSE LET r == CkdPriv(key, Head(path))
         IN  IF r.ok THEN DerivePriv(r.val, Tail(path)) ELSE r

\* ExtendedPubKey::from_private
FromPrivate(private_key) == PubFromScalar(private_key)

Sha256(bytes) == (bytes * bytes + 3 * bytes + 5) % ShaSpace
Ripemd160(bytes) == (5 * bytes + 2) % AddrSpace

\* a single hash: the address is the SHA256 digest alone
get_address_sha_only(pk) == Sha256(pk) % AddrSpace

\* get_address: RIPEMD160(SHA256(public key bytes))
get_address(pk) == Ripemd160(Sha256(pk))

\* the part of add_from_mnemonic before the insert: Ok([address, key]) or Err
Derive(mnemonic_words) ==
    LET mnemonic == MnemonicFromStr(mnemonic_words)
    IN  IF ~mnemonic.ok THEN mnemonic
        ELSE LET seed == ToSeed(mnemonic.val, EmptyPassphrase)
                 master == NewMaster(seed)
                 derived == IF master.ok THEN DerivePriv(master.val, HdPath) ELSE master
             IN  IF ~derived.ok THEN derived
                 ELSE LET private_key == derived.val.private_key
                          public_key == FromPrivate(private_key)
                          address == get_address(public_key)
                      IN  Ok([address |-> address,
                              key |-> [public_key |-> public_key,
                                       private_key |-> private_key]])

(* ------------------------------ signing -------------------------------- *)

\* the message digest reduced to a scalar (SHA256 inside Signer::sign)
Digest(msg) == (7 * msg + 3) % GroupQ

\* SigningKey::new(bytes): the bytes must be a scalar in 1..GroupQ-1
SigningKeyNew(bytes) ==
    IF bytes \in Scalars THEN Ok(bytes) ELSE Err("Crypto")

\* the signature made with nonce k, or << >> when r or s would be zero
SignWithNonce(x, z, k) ==
    LET r == Pow(GroupG, k, GroupP) % GroupQ
        s == (InvQ(k) * (z + r * x)) % GroupQ
    IN  IF r = 0 \/ s = 0 THEN << >> ELSE << r, s >>

\* deterministic nonce generation: the first candidate, counted from a value
\* fixed by key and digest, that yields a signature
RECURSIVE NonceFrom(_, _, _, _)
NonceFrom(x, z, k, tries) ==
    IF tries = 0 \/ SignWithNonce(x, z, k) # << >> THEN k
    ELSE NonceFrom(x, z, (k % (GroupQ - 1)) + 1, tries - 1)

\* Signer::sign of a signing key: ECDSA over the digest, encoded as r || s
EcdsaSign(x, msg) ==
    LET z == Digest(msg)
        k == NonceFrom(x, z, ((3 * x + 5 * z) % (GroupQ - 1)) + 1, GroupQ)
    IN  SignWithNonce(x, z, k)

\* Verifier::verify of the verify key pk
EcdsaVerify(pk, msg, sig) ==
    /\ Len(sig) = 2
    /\ sig[1] \in Scalars
    /\ sig[2] \in Scalars
    /\ LET z == Digest(msg)
           w == InvQ(sig[2])
           u1 == (z * w) % GroupQ
           u2 == (sig[1] * w) % GroupQ
           v == ((Pow(GroupG, u1, GroupP) * Pow(pk, u2, GroupP)) % GroupP) % GroupQ
       IN  v = sig[1]

(* ------------------------------ key store ------------------------------ *)

\* KeyEntry { public_key, private_key }
KeyEntry(public_key, private_key) ==
    [public_key |-> public_key, private_key |-> private_key]

\* KeyRing::init(StoreBackend::Memory): BTreeMap::new()
init(backend) == << >>

\* a lookup that returns the first entry of the map whatever the address is
get_first_entry(s, address) ==
    IF address \notin DOMAIN s THEN Err("InvalidKey")
    ELSE Ok(s[CHOOSE a \in DOMAIN s : \A b \in DOMAIN s : a <= b])

\* KeyRing::get
get(s, address) ==
    IF address \notin DOMAIN s THEN Err("InvalidKey")
    ELSE Ok(s[address])

\* an insert that forgets the entries under the other addresses
MapInsertFresh(s, addr, key) == [a \in {addr} |-> key]

\* BTreeMap::insert: the map after the insert
MapInsert(s, addr, key) ==
    [a \in (DOMAIN s) \cup {addr} |-> IF a = addr THEN key ELSE s[a]]

\* an insert that keeps the entry already stored (entry().or_insert())
insert_if_absent(s, addr, key) ==
    IF addr \in DOMAIN s THEN [store |-> s, ret |-> << s[addr] >>]
    ELSE [store |-> MapInsert(s, addr, key), ret |-> << >>]

\* KeyRing::insert: the store after the call and the value returned
\* (Option<KeyEntry> as a sequence of length 0 or 1)
insert(s, addr, key) ==
    [store |-> MapInsert(s, addr, key),
     ret |-> IF addr \in DOMAIN s THEN << s[addr] >> ELSE << >>]

\* an add that stores an entry for the zero key before the derivation has
\* succeeded, and leaves it there when the derivation fails
add_from_mnemonic_eager(s, mnemonic_words) ==
    LET d == Derive(mnemonic_words)
        placeholder == KeyEntry(FromPrivate(0), 0)
    IN  IF ~d.ok
        THEN [store |-> MapInsert(s, get_address(placeholder.public_key), placeholder),
              ret |-> d]
        ELSE [store |-> MapInsert(s, d.val.address, d.val.key),
              ret |-> Ok(d.val.address)]

\* an add that returns the address without the insert
add_from_mnemonic_no_insert(s, mnemonic_words) ==
    LET d == Derive(mnemonic_words)
    IN  IF ~d.ok THEN [store |-> s, ret |-> d]
        ELSE [store |-> s, ret |-> Ok(d.val.address)]

\* an add that derives along the account index of the next free account, the
\* number of entries the store holds, instead of the fixed path
add_from_mnemonic_next_account(s, mnemonic_words) ==
    LET mnemonic == MnemonicFromStr(mnemonic_words)
        path == [HdPath EXCEPT ![3] = << Cardinality(DOMAIN s), TRUE >>]
        master == IF mnemonic.ok THEN NewMaster(ToSeed(mnemonic.val, EmptyPassphrase))
                  ELSE mnemonic
        derived == IF master.ok THEN DerivePriv(master.val, path) ELSE master
    IN  IF ~derived.ok THEN [store |-> s, ret |-> derived]
        ELSE LET key == KeyEntry(FromPrivate(derived.val.private_key),
                                 derived.val.private_key)
             IN  [store |-> MapInsert(s, get_address(key.public_key), key),
                  ret |-> Ok(get_address(key.public_key))]

\* KeyRing::add_from_mnemonic: the store after the call and the Result
add_from_mnemonic(s, mnemonic_words) ==
    LET d == Derive(mnemonic_words)
    IN  IF ~d.ok THEN [store |-> s, ret |-> d]
        ELSE [store |-> insert(s, d.val.address, d.val.key).store,
              ret |-> Ok(d.val.address)]

\* Result::unwrap: the value, or a panic
Unwrap(r) ==
    IF r.ok THEN [panic |-> FALSE, val |-> r.val]
    ELSE [panic |-> TRUE, val |-> r.err]

\* a sign that takes the bytes of the public key for the signing key
sign_with_public_key(s, signer, msg) ==
    LET key == Unwrap(get(s, signer))
    IN  IF key.panic THEN key
        ELSE LET signing_key == Unwrap(SigningKeyNew(key.val.public_key))
             IN  IF signing_key.panic THEN signing_key
                 ELSE [panic |-> FALSE, val |-> EcdsaSign(signing_key.val, msg)]

\* KeyRing::sign: the signature bytes, or the panic of an unwrap
sign(s, signer, msg) ==
    LET key == Unwrap(get(s, signer))
    IN  IF key.panic THEN key
        ELSE LET signing_key == Unwrap(SigningKeyNew(key.val.private_key))
             IN  IF signing_key.panic THEN signing_key
                 ELSE [panic |-> FALSE, val |-> EcdsaSign(signing_key.val, msg)]

\* the entries whose public key is the one of their private key
PairedEntries == {KeyEntry(PubFromScalar(k), k) : k \in 1 .. MaxTestKey}

\* the entries a caller hands to insert directly: the paired ones, and entries
\* that hold the public key of one private key beside another private key
TestEntries ==
    PairedEntries \cup
    {KeyEntry(PubFromScalar(k), (k % MaxTestKey) + 1) : k \in 1 .. MaxTestKey}

Threads == 1 .. NThreads

VARIABLES
    store,    \* KeyRing::MemoryKeyStore { store }: a function Address -> KeyEntry
    last,     \* the latest call on the store: its name, arguments and return value
    aborted,  \* TRUE once a panic has unwound the caller
    fresh,    \* a second KeyRing: init() followed by one add_from_mnemonic
    borrow,   \* per caller, the borrow of the KeyRing it holds: none, shared, mut
    task      \* per caller, the call in progress and what it has read so far

vars == << store, last, aborted, fresh, borrow, task >>

\* A call as recorded in last: every argument and every part of the return
\* value is a sequence, empty when the call has no such argument or part.
Call(op, addr, words, msg, key, ret) ==
    [op |-> op, addr |-> addr, words |-> words, msg |-> msg, key |-> key, ret |-> ret]

\* a return value without content: the unit of the Result and Option shapes
Returned ==
    [ok |-> TRUE, panic |-> FALSE, err |-> "", addr |-> << >>, key |-> << >>,
     sig |-> << >>]

\* Result<Address, Error> of add_from_mnemonic
AddressResult(r) ==
    IF r.ok THEN [Returned EXCEPT !.addr = << r.val >>]
    ELSE [Returned EXCEPT !.ok = FALSE, !.err = r.err]

\* Result<&KeyEntry, Error> of get
EntryResult(r) ==
    IF r.ok THEN [Returned EXCEPT !.key = << r.val >>]
    ELSE [Returned EXCEPT !.ok = FALSE, !.err = r.err]

\* Vec<u8> of sign, or the panic that replaced it
SignatureResult(r) ==
    IF r.panic THEN [Returned EXCEPT !.ok = FALSE, !.panic = TRUE, !.err = r.val]
    ELSE [Returned EXCEPT !.sig = r.val]

\* no call in progress
Idle == [op |-> "idle", addr |-> 0, key |-> << >>, msg |-> 0, seen |-> 0]

Init ==
    /\ store = init("Memory")
    /\ last = Call("init", << >>, << >>, << >>, << >>, Returned)
    /\ aborted = FALSE
    /\ fresh = [words |-> << >>, ret |-> Returned, store |-> init("Memory")]
    /\ borrow = [t \in Threads |-> "none"]
    /\ task = [t \in Threads |-> Idle]

(* ---------------- one caller: each call runs to completion -------------- *)

AddFromMnemonic(mnemonic_words) ==
    /\ ~aborted
    /\ LET r == add_from_mnemonic(store, mnemonic_words)
       IN  /\ store' = r.store
           /\ last' = Call("add_from_mnemonic", << >>, mnemonic_words, << >>, << >>,
                           AddressResult(r.ret))
    /\ UNCHANGED << aborted, fresh, borrow, task >>

Get(address) ==
    /\ ~aborted
    /\ last' = Call("get", << address >>, << >>, << >>, << >>,
                    EntryResult(get(store, address)))
    /\ UNCHANGED << store, aborted, fresh, borrow, task >>

Insert(addr, key) ==
    /\ ~aborted
    /\ LET r == insert(store, addr, key)
       IN  /\ store' = r.store
           /\ last' = Call("insert", << addr >>, << >>, << >>, << key >>,
                           [Returned EXCEPT !.key = r.ret])
    /\ UNCHANGED << aborted, fresh, borrow, task >>

Sign(signer, msg) ==
    /\ ~aborted
    /\ LET r == sign(store, signer, msg)
       IN  /\ last' = Call("sign", << signer >>, << >>, << msg >>, << >>,
                           SignatureResult(r))
           /\ aborted' = r.panic
    /\ UNCHANGED << store, fresh, borrow, task >>

Next ==
    \/ \E w \in Mnemonics : AddFromMnemonic(w)
    \/ \E a \in Addresses : Get(a)
    \/ \E a \in Addresses, e \in TestEntries : Insert(a, e)
    \/ \E a \in Addresses, m \in Messages : Sign(a, m)

Spec == Init /\ [][Next]_vars

(* ------------- two stores: the same phrase added to a fresh one --------- *)

\* init() and then add_from_mnemonic of a well-formed phrase on the new store
FreshAdd(mnemonic_words) ==
    /\ MnemonicFromStr(mnemonic_words).ok
    /\ LET r == add_from_mnemonic(init("Memory"), mnemonic_words)
       IN  fresh' = [words |-> mnemonic_words, ret |-> AddressResult(r.ret),
                     store |-> r.store]
    /\ UNCHANGED << store, last, aborted, borrow, task >>

NextDet ==
    \/ \E w \in Mnemonics : AddFromMnemonic(w)
    \/ \E a \in Addresses, e \in PairedEntries : Insert(a, e)
    \/ \E w \in Mnemonics : FreshAdd(w)

SpecDet == Init /\ [][NextDet]_vars

(* ------- several callers: a call is a sequence of field accesses -------- *)

\* an insert through a shared reference: nothing excludes the other callers
CanBorrowAlways(t) == TRUE

\* insert takes &mut self: no other caller may hold any borrow of the store
CanBorrowMut(t) == \A u \in Threads \ {t} : borrow[u] = "none"

\* get and sign take &self: no other caller may hold the exclusive borrow
CanBorrowShared(t) == \A u \in Threads \ {t} : borrow[u] # "mut"

\* the first half of the write of an entry: its public_key field; a slot that
\* held no entry has no private key yet (0)
WritePublic(s, addr, key) ==
    MapInsert(s, addr,
              KeyEntry(key.public_key,
                       IF addr \in DOMAIN s THEN s[addr].private_key ELSE 0))

\* the second half: the private_key field
WritePrivate(s, addr, key) ==
    MapInsert(s, addr, KeyEntry(s[addr].public_key, key.private_key))

InsertBegin(t, addr, key) ==
    /\ ~aborted
    /\ task[t].op = "idle"
    /\ CanBorrowMut(t)
    /\ borrow' = [borrow EXCEPT ![t] = "mut"]
    /\ store' = WritePublic(store, addr, key)
    /\ task' = [task EXCEPT ![t] = [Idle EXCEPT !.op = "insert", !.addr = addr,
                                                !.key = << key >>]]
    /\ UNCHANGED << last, aborted, fresh >>

InsertEnd(t) ==
    /\ ~aborted
    /\ task[t].op = "insert"
    /\ store' = WritePrivate(store, task[t].addr, task[t].key[1])
    /\ borrow' = [borrow EXCEPT ![t] = "none"]
    /\ task' = [task EXCEPT ![t] = Idle]
    /\ UNCHANGED << last, aborted, fresh >>

\* get: the lookup, and for a present address the read of the public_key field
\* through the reference returned; an absent address returns InvalidKey at once
GetBegin(t, address) ==
    /\ ~aborted
    /\ task[t].op = "idle"
    /\ CanBorrowShared(t)
    /\ get(store, address).ok
    /\ borrow' = [borrow EXCEPT ![t] = "shared"]
    /\ task' = [task EXCEPT ![t] = [Idle EXCEPT !.op = "get", !.addr = address,
                                                !.seen = store[address].public_key]]
    /\ UNCHANGED << store, last, aborted, fresh >>

\* the entry a get in progress hands to its caller: the public_key field read
\* at the start and the private_key field read now
Observed(t) == KeyEntry(task[t].seen, store[task[t].addr].private_key)

\* the read of the private_key field; the reference is dropped
GetEnd(t) ==
    /\ ~aborted
    /\ task[t].op = "get"
    /\ task' = [task EXCEPT ![t] = Idle]
    /\ borrow' = [borrow EXCEPT ![t] = "none"]
    /\ UNCHANGED << store, last, aborted, fresh >>

\* sign: get(signer).unwrap(), which panics on an absent address
SignBegin(t, signer, msg) ==
    /\ ~aborted
    /\ task[t].op = "idle"
    /\ CanBorrowShared(t)
    /\ IF Unwrap(get(store, signer)).panic
       THEN /\ aborted' = TRUE
            /\ UNCHANGED << borrow, task >>
       ELSE /\ borrow' = [borrow EXCEPT ![t] = "shared"]
            /\ task' = [task EXCEPT ![t] = [Idle EXCEPT !.op = "sign", !.addr = signer,
                                                        !.msg = msg,
                                                        !.seen = store[signer].public_key]]
            /\ UNCHANGED aborted
    /\ UNCHANGED << store, last, fresh >>

\* what a sign in progress returns: the private key bytes read now through the
\* reference, made a signing key, and the signature of the message
Signed(t) ==
    LET signing_key == Unwrap(SigningKeyNew(store[task[t].addr].private_key))
    IN  IF signing_key.panic THEN SignatureResult(signing_key)
        ELSE SignatureResult([panic |-> FALSE,
                              val |-> EcdsaSign(signing_key.val, task[t].msg)])

SignEnd(t) ==
    /\ ~aborted
    /\ task[t].op = "sign"
    /\ aborted' = Signed(t).panic
    /\ task' = [task EXCEPT ![t] = Idle]
    /\ borrow' = [borrow EXCEPT ![t] = "none"]
    /\ UNCHANGED << store, last, fresh >>

NextConc ==
    \/ \E t \in Threads, a \in Addresses, e \in PairedEntries : InsertBegin(t, a, e)
    \/ \E t \in Threads : InsertEnd(t)
    \/ \E t \in Threads, a \in Addresses : GetBegin(t, a)
    \/ \E t \in Threads : GetEnd(t)
    \/ \E t \in Threads, a \in Addresses, m \in Messages : SignBegin(t, a, m)
    \/ \E t \in Threads : SignEnd(t)

SpecConc == Init /\ [][NextConc]_vars

(* ------------ a store filled through add_from_mnemonic alone ------------ *)

NextDerived ==
    \/ \E w \in Mnemonics : AddFromMnemonic(w)
    \/ \E a \in Addresses : Get(a)
    \/ \E a \in Addresses, m \in Messages : Sign(a, m)

SpecDerived == Init /\ [][NextDerived]_vars

(* ------------------------------- claims -------------------------------- *)

\* the entry is the one add_from_mnemonic stores under address a for some phrase
IsDerived(a, e) ==
    \E w \in Mnemonics :
        /\ Derive(w).ok
        /\ Derive(w).val.address = a
        /\ Derive(w).val.key = e

\* C1: sign called with an address that is not in the store returns the
\* recoverable error InvalidKey and does not abort the process.
C1_SignAbsentIsRecoverable ==
    (last.op = "sign" /\ last.addr[1] \notin DOMAIN store)
        => (~aborted /\ ~last.ret.panic /\ last.ret.err = "InvalidKey")

\* C2: get(address) fails with InvalidKey exactly when no entry is stored under
\* the address, and otherwise succeeds with the entry stored under it.
C2_GetIffPresent ==
    last.op = "get" =>
        /\ (~last.ret.ok) <=> (last.addr[1] \notin DOMAIN store)
        /\ (~last.ret.ok) => (last.ret.err = "InvalidKey" /\ last.ret.key = << >>)
        /\ last.ret.ok => last.ret.key = << store[last.addr[1]] >>

C2_Witness ==
    /\ last.op = "get"
    /\ last.ret.ok
    /\ IsDerived(last.addr[1], last.ret.key[1])
    /\ DOMAIN store # Addresses

\* C3: insert(addr, key) returns the entry stored under addr before the call
\* (none when addr was absent), leaves key under addr and every other address
\* as it was, and the entry under an address changes only by an insert at that
\* address, so every get until then returns the new entry.
C3_InsertReplaces ==
    [][/\ last'.op = "insert" =>
            /\ last'.ret.key = (IF last'.addr[1] \in DOMAIN store
                                THEN << store[last'.addr[1]] >> ELSE << >>)
            /\ DOMAIN store' = (DOMAIN store) \cup {last'.addr[1]}
            /\ store'[last'.addr[1]] = last'.key[1]
            /\ \A b \in (DOMAIN store) \ {last'.addr[1]} : store'[b] = store[b]
       /\ \A a \in (DOMAIN store) \cap (DOMAIN store') :
            store'[a] # store[a] =>
                \/ last'.op = "insert" /\ last'.addr = << a >>
                \/ last'.op = "add_from_mnemonic" /\ last'.ret.addr = << a >>
       /\ (last'.op = "get" /\ last'.addr[1] \in DOMAIN store) =>
            last'.ret.key = << store[last'.addr[1]] >>
      ]_vars

C3_Witness ==
    /\ last.op = "insert"
    /\ last.ret.key # << >>
    /\ last.ret.key # last.key
    /\ store[last.addr[1]] = last.key[1]

\* C4: a failing add_from_mnemonic (InvalidMnemonic or PrivateKey) leaves the
\* store exactly as it was before the call.
C4_FailedAddKeepsStore ==
    [][(last'.op = "add_from_mnemonic" /\ ~last'.ret.ok) =>
            /\ last'.ret.err \in {"InvalidMnemonic", "PrivateKey"}
            /\ store' = store
      ]_vars

C4_Witness ==
    /\ last.op = "add_from_mnemonic"
    /\ ~last.ret.ok
    /\ last.ret.err = "PrivateKey"
    /\ DOMAIN store # {}

\* C5: a successful add_from_mnemonic(M) returns the address derived from M,
\* get of that address then returns the keypair derived from M whatever was
\* stored there before, and the entries under all other addresses are unchanged.
C5_AddStoresDerived ==
    [][(last'.op = "add_from_mnemonic" /\ last'.ret.ok) =>
            LET d == Derive(last'.words)
                A == last'.ret.addr[1]
            IN  /\ d.ok
                /\ A = d.val.address
                /\ get(store', A).ok
                /\ get(store', A).val = d.val.key
                /\ DOMAIN store' = (DOMAIN store) \cup {A}
                /\ \A b \in (DOMAIN store) \ {A} : store'[b] = store[b]
      ]_vars

C5_Witness ==
    /\ last.op = "add_from_mnemonic"
    /\ last.ret.ok
    /\ Cardinality(DOMAIN store) = AddrSpace
    /\ \E b \in DOMAIN store : ~IsDerived(b, store[b])

\* C6: a signature returned by sign(A, m) is made with the private key of the
\* entry stored under A, and when that entry is a keypair added by
\* add_from_mnemonic it verifies against the entry's stored public key.
C6_SignatureVerifies ==
    (last.op = "sign" /\ ~last.ret.panic) =>
        LET A == last.addr[1]
            m == last.msg[1]
        IN  /\ A \in DOMAIN store
            /\ EcdsaVerify(PubFromScalar(store[A].private_key), m, last.ret.sig)
            /\ IsDerived(A, store[A]) =>
                    EcdsaVerify(store[A].public_key, m, last.ret.sig)

C6_Witness ==
    /\ last.op = "sign"
    /\ ~last.ret.panic
    /\ IsDerived(last.addr[1], store[last.addr[1]])
    /\ EcdsaVerify(store[last.addr[1]].public_key, last.msg[1], last.ret.sig)

\* C7: add_from_mnemonic of a valid phrase M returns the same address and
\* stores the same keypair on a fresh store as on any other store.
C7_AddIsDeterministic ==
    (last.op = "add_from_mnemonic" /\ last.ret.ok /\ fresh.words = last.words) =>
        /\ fresh.ret.ok
        /\ fresh.ret.addr = last.ret.addr
        /\ fresh.store[fresh.ret.addr[1]] = store[last.ret.addr[1]]

C7_Witness ==
    /\ last.op = "add_from_mnemonic"
    /\ last.ret.ok
    /\ fresh.words = last.words
    /\ DOMAIN store # DOMAIN fresh.store

\* C8: a store returned by init holds no address, and no call removes an
\* address from the store: the set of stored addresses only grows.
C8_EntriesNeverDeleted ==
    /\ DOMAIN store = {}
    /\ [][(DOMAIN store) \subseteq (DOMAIN store')]_vars

C8_Witness ==
    /\ aborted
    /\ Cardinality(DOMAIN store) >= 2

\* C9: with several callers, a get that completes hands out a complete entry
\* (public and private key of the same insert), and a sign that completes
\* returns a signature that verifies against the public key of the entry it
\* looked up: no reader meets a half-written entry.
C9_NoTornRead ==
    [][\A t \in Threads :
          /\ (task[t].op = "get" /\ task'[t].op = "idle") =>
                Observed(t) \in PairedEntries
          /\ (task[t].op = "sign" /\ task'[t].op = "idle") =>
                /\ ~Signed(t).panic
                /\ EcdsaVerify(task[t].seen, task[t].msg, Signed(t).sig)
      ]_vars

\* an insert is half done on an address that held another entry: the store
\* holds the new public key beside the old private key
C9_Witness ==
    \E u \in Threads :
        /\ task[u].op = "insert"
        /\ store[task[u].addr].public_key = task[u].key[1].public_key
        /\ store[task[u].addr].private_key \notin {0, task[u].key[1].private_key}
        /\ \E t \in Threads \ {u} : task[t].op = "idle"

\* C10: in a store filled by add_from_mnemonic alone, every entry lies under
\* RIPEMD160(SHA256(its public key)), its public key is the one of its private
\* key, and after an add the entry under the returned address is the one
\* derived from that phrase (the later of two phrases with the same address).
C10_DerivedEntriesAddressed ==
    /\ \A a \in DOMAIN store :
          /\ a = Ripemd160(Sha256(store[a].public_key))
          /\ store[a].public_key = PubFromScalar(store[a].private_key)
    /\ (last.op = "add_from_mnemonic" /\ last.ret.ok) =>
          store[last.ret.addr[1]] = Derive(last.words).val.key

C10_Witness ==
    /\ last.op = "add_from_mnemonic"
    /\ last.ret.ok
    /\ \E w \in Mnemonics :
          /\ Derive(w).ok
          /\ Derive(w).val.address = last.ret.addr[1]
          /\ Derive(w).val.key # store[last.ret.addr[1]]
    /\ Cardinality(DOMAIN store) >= 2
====
